---- MODULE Spec2Model ----
(***************************************************************************)
(* A model of the intheloop IPython extension:                             *)
(*   - NotebookContext (src/intheloop/context.py): the snapshot of the     *)
(*     shell's namespace, history and outputs;                             *)
(*   - AIContextMagics.ai (src/intheloop/magic.py): the %%ai cell magic    *)
(*     and its streaming loop with the tool-call buffers;                  *)
(*   - InTheLoop.custom_exc (src/intheloop/recommendations.py): the        *)
(*     exception hook.                                                     *)
(* Python strings are sequences of glyphs (TLA+ strings are atomic), so    *)
(* that strip, startswith, concatenation and JSON parsing are computed.    *)
(* A Python call that may raise returns a record with a field "raised".    *)
(***************************************************************************)
EXTENDS Integers, Sequences, FiniteSets, TLC

VARIABLES
    \* ---- the host shell (IPython InteractiveShell)
    user_ns,            \* shell.user_ns: the ordered name -> object mapping
    In,                 \* the input history list behind user_ns['In'] / ['_ih']
    Out,                \* the output mapping behind user_ns['Out'] / ['_oh']
    execution_count,    \* shell.execution_count
    sys_modules,        \* which of pandas / numpy are in sys.modules
    \* ---- results of the NotebookContext calls
    context,            \* the last result of format_context()
    history,            \* the last result of get_in_out_history(n)
    n_entries,          \* the n of that call
    prompt,             \* the last result of format_context_for_prompt()
    \* ---- AIContextMagics
    ai_pc,              \* where the ai magic is: "idle" or "stream"
    ai_outcome,         \* how the last invocation of ai ended
    function_call_buffers, \* self.function_call_buffers
    full_response,      \* the local full_response of ai
    display_handle,     \* the DisplayHandle of the invocation and what it shows
    chunk,              \* the loop variable of "for chunk in response"
    next_input,         \* the calls of shell.set_next_input, in order
    creates,            \* calls of client.responses.create in this invocation
    invocations,        \* invocations of ai so far
    nchunks,            \* chunks read in this invocation
    total_chunks,       \* chunks read in the session
    fragments,          \* history: the text deltas received in this invocation
    arrived,            \* history: per call id started in this invocation, its
                        \* name, its argument deltas, the arguments json.loads
                        \* parsed and the cells given to set_next_input
    \* ---- InTheLoop.custom_exc and the host's exception dispatch
    registered,         \* whether register() installed the hook
    exc_pc,             \* where custom_exc is
    etype,              \* the exception type being handled
    shown,              \* calls of shell.showtraceback for this exception
    gm,                 \* the local Markdown display gm of custom_exc
    code,               \* the local code of custom_exc
    exc_context,        \* the local context of custom_exc
    requests,           \* calls of chat.completions.create for this exception
    printed,            \* "Error while trying to provide a suggestion" prints
    exc_outcome,        \* how the last call of custom_exc ended
    exceptions          \* exceptions raised in cells so far

shell_vars == <<user_ns, In, Out, execution_count, sys_modules>>
ctx_vars == <<context, history, n_entries, prompt>>
ai_vars == <<ai_pc, ai_outcome, function_call_buffers, full_response,
             display_handle, chunk, next_input, creates, invocations, nchunks,
             total_chunks, fragments, arrived>>
exc_vars == <<registered, exc_pc, etype, shown, gm, code, exc_context,
              requests, printed, exc_outcome, exceptions>>
vars == <<shell_vars, ctx_vars, ai_vars, exc_vars>>

(***************************************************************************)
(* Bounds of the model.                                                    *)
(***************************************************************************)
MaxHist == 3        \* cells run after In[0]
MaxN == 3           \* largest n_entries tried for get_in_out_history
MaxVars == 2        \* names the user binds in the namespace
MaxChunks == 4      \* chunks read in a session
MaxArgLen == 5      \* glyphs in one tool call's argument buffer
MaxInvocations == 2 \* invocations of the ai magic
MaxExceptions == 2  \* exceptions raised in cells

(***************************************************************************)
(* Python helpers.                                                         *)
(***************************************************************************)
None == "None"

Max(a, b) == IF a >= b THEN a ELSE b

\* str.startswith
StartsWith(s, p) == Len(s) >= Len(p) /\ SubSeq(s, 1, Len(p)) = p

\* str.lstrip / str.rstrip / str.strip on the whitespace glyph " "
RECURSIVE lstrip(_)
lstrip(s) == IF s # <<>> /\ Head(s) = " " THEN lstrip(Tail(s)) ELSE s

RECURSIVE rstrip(_)
rstrip(s) ==
    IF s # <<>> /\ s[Len(s)] = " " THEN rstrip(SubSeq(s, 1, Len(s) - 1)) ELSE s

strip(s) == rstrip(lstrip(s))

\* dict lookup in an ordered mapping kept as a sequence of [name, obj]
HasKey(ns, name) == \E i \in 1..Len(ns) : ns[i].name = name

(***************************************************************************)
(* The objects of the namespace and of Out.                                *)
(*   type    the Python type                                               *)
(*   n       rows of a DataFrame, elements of an ndarray, len of a list    *)
(*   numeric whether an ndarray's dtype is a number                        *)
(*   outputs the outputs of the cells of a notebook object nb              *)
(***************************************************************************)
Obj(type, n, numeric) ==
    [type |-> type, n |-> n, numeric |-> numeric, outputs |-> <<>>]

NbOutput(output_type, mimes, has_text) ==
    [output_type |-> output_type, data |-> mimes, text |-> has_text]

NbObj ==
    [type |-> "NotebookNode", n |-> 0, numeric |-> FALSE,
     outputs |-> << NbOutput("execute_result", {"text/plain", "image/png"}, FALSE),
                    NbOutput("stream", {}, TRUE),
                    NbOutput("error", {}, FALSE) >>]

HistoryList == Obj("list", 0, FALSE)
HistoryDict == Obj("dict", 0, FALSE)
ExitAutocall == Obj("ExitAutocall", 0, FALSE)

\* what the user may bind: DataFrames of 5 and 2 rows, a numeric array, an
\* empty numeric array, a module, an int, and an object whose __len__ raises
UserObjects ==
    { Obj("DataFrame", 5, FALSE), Obj("DataFrame", 2, FALSE),
      Obj("ndarray", 3, TRUE), Obj("ndarray", 0, TRUE),
      Obj("module", 0, FALSE), Obj("int", 0, FALSE), Obj("Broken", 0, FALSE) }

N_In == <<"I", "n">>
N_Out == <<"O", "u", "t">>
N_ih == <<"_", "i", "h">>
N_oh == <<"_", "o", "h">>
N_exit == <<"e", "x", "i", "t">>
N_quit == <<"q", "u", "i", "t">>
N_nb == <<"n", "b">>

ReservedNames == {N_In, N_Out, N_exit, N_quit}

UserNames == { <<"d", "f">>, <<"_", "x">>, <<"n", "p">>, N_quit }

Binding(name, obj) == [name |-> name, obj |-> obj]

\* the namespace of a fresh shell
BaseNs ==
    << Binding(N_In, HistoryList), Binding(N_Out, HistoryDict),
       Binding(N_ih, HistoryList), Binding(N_oh, HistoryDict),
       Binding(N_exit, ExitAutocall), Binding(N_quit, ExitAutocall) >>

\* a namespace whose In and Out were deleted and that holds a notebook nb
NbNs ==
    << Binding(N_ih, HistoryList), Binding(N_oh, HistoryDict),
       Binding(N_nb, NbObj), Binding(<<"d", "f">>, Obj("DataFrame", 5, FALSE)) >>

(***************************************************************************)
(* The values of Out.                                                      *)
(*   truth   what bool(output) does: "truthy", "falsy" or "raises" (the    *)
(*           truth value of a DataFrame is ambiguous: ValueError)          *)
(*   render  what rendering does: "rich" (the display formatter returns    *)
(*           data), "figure" (no data, a matplotlib figure without data),  *)
(*           "plain" (no data, str(output) works), "raises" (no data and   *)
(*           str(output) raises)                                           *)
(***************************************************************************)
OutVal(v, truth, render) == [v |-> v, truth |-> truth, render |-> render]

EmptyStr == OutVal("''", "falsy", "rich")       \* the default of Out.get(i, '')
OutHi == OutVal("'hi'", "truthy", "rich")
OutZero == OutVal("0", "falsy", "rich")
OutDataFrame == OutVal("DataFrame", "raises", "rich")
OutBadRepr == OutVal("BadRepr", "truthy", "raises")

OutVals == {OutHi, OutZero, OutDataFrame, OutBadRepr}

\* the inputs of cells: code, a line magic, the %%ai magic after a blank,
\* and a get_ipython() call
InputCmds ==
    { <<"x">>, <<"%", "x">>, <<" ", "%", "%", "a", "i">>, <<"get_ipython()">> }

(***************************************************************************)
(* NotebookContext (src/intheloop/context.py).                             *)
(***************************************************************************)
DefaultN == 5       \* n_entries: int = 5
SampleSize == 3     \* obj.sample(3)

\* NotebookContext.__init__: 'pandas' in sys.modules, 'numpy' in sys.modules
pandas_available(mods) == "pandas" \in mods
numpy_available(mods) == "numpy" \in mods

\* _process_output_data: text/plain first, then image/png
process_output_data(mimes) ==
    (IF "text/plain" \in mimes THEN <<"text">> ELSE <<>>)
        \o (IF "image/png" \in mimes THEN <<"image">> ELSE <<>>)

\* _get_rich_output: the data of shell.display_formatter.format(obj)
get_rich_output(render) == IF render = "rich" THEN {"text/plain"} ELSE {}

\* _process_notebook_output
process_notebook_output(output) ==
    IF output.output_type \in {"execute_result", "display_data"}
    THEN process_output_data(output.data)
    ELSE IF output.output_type = "stream" /\ output.text THEN <<"text">>
    ELSE <<>>

OutputInfo(output_type, content) ==
    [output_type |-> output_type, content |-> content]

\* user_ns.get(name): the object bound to name, when there is one
Lookup(ns, name) ==
    LET i == CHOOSE k \in 1..Len(ns) : ns[k].name = name IN ns[i].obj

\* get_output_history, first loop: the outputs of the cells of nb
RECURSIVE NbOutputs(_, _)
NbOutputs(outputs, acc) ==
    IF outputs = <<>> THEN acc
    ELSE LET contents == process_notebook_output(Head(outputs)) IN
         NbOutputs(Tail(outputs),
                   IF contents # <<>>
                   THEN Append(acc, OutputInfo(Head(outputs).output_type, contents))
                   ELSE acc)

\* the contents of one recent output; str(output) may raise
RenderOutput(output) ==
    LET data == get_rich_output(output.render) IN
    IF data # {} THEN [raised |-> FALSE, value |-> process_output_data(data)]
    ELSE IF output.render = "figure"
         THEN [raised |-> FALSE, value |-> process_output_data({"image/png"})]
    ELSE IF output.render = "plain" THEN [raised |-> FALSE, value |-> <<"text">>]
    ELSE [raised |-> TRUE, value |-> <<>>]

\* get_output_history, second loop: for i in range(ec - n, ec + 1)
RECURSIVE RecentOutputs(_, _, _, _)
RecentOutputs(outs, i, last, acc) ==
    IF i > last THEN [raised |-> FALSE, value |-> acc]
    ELSE IF i \notin DOMAIN outs THEN RecentOutputs(outs, i + 1, last, acc)
    ELSE LET r == RenderOutput(outs[i]) IN
         IF r.raised THEN [raised |-> TRUE, value |-> <<>>]
         ELSE RecentOutputs(outs, i + 1, last,
                            IF r.value # <<>>
                            THEN Append(acc, OutputInfo("execute_result", r.value))
                            ELSE acc)

\* user_ns.get('Out', {}) of get_output_history
OutOrEmpty(ns, outs) == IF HasKey(ns, N_Out) THEN outs ELSE [i \in {} |-> EmptyStr]

get_output_history(ns, outs, ec, n) ==
    LET fromNb == IF HasKey(ns, N_nb) THEN NbOutputs(Lookup(ns, N_nb).outputs, <<>>)
                  ELSE <<>>
    IN RecentOutputs(OutOrEmpty(ns, outs), ec - n, ec, fromNb)

\* get_imported_modules, as list(...keys())
RECURSIVE get_imported_modules(_)
get_imported_modules(ns) ==
    IF ns = <<>> THEN <<>>
    ELSE (IF Head(ns).obj.type = "module" THEN <<Head(ns).name>> ELSE <<>>)
            \o get_imported_modules(Tail(ns))

\* the try block of get_dataframe_info: sampling 3 rows of fewer raises
DataFrameFails(obj) == obj.n < SampleSize

RECURSIVE DataFrames(_)
DataFrames(ns) ==
    IF ns = <<>> THEN <<>>
    ELSE (IF Head(ns).obj.type = "DataFrame" /\ ~DataFrameFails(Head(ns).obj)
          THEN << [name |-> Head(ns).name, rows |-> Head(ns).obj.n] >>
          ELSE <<>>) \o DataFrames(Tail(ns))

get_dataframe_info(ns, mods) ==
    IF ~pandas_available(mods) THEN <<>> ELSE DataFrames(ns)

VariableInfo(name, type_name, kind, n) ==
    [name |-> name, type_name |-> type_name, summary |-> [kind |-> kind, n |-> n]]

\* the try block of get_array_info: min() of an empty numeric array raises
ArrayFails(obj) == obj.numeric /\ obj.n = 0

RECURSIVE Arrays(_)
Arrays(ns) ==
    IF ns = <<>> THEN <<>>
    ELSE (IF Head(ns).obj.type = "ndarray" /\ ~ArrayFails(Head(ns).obj)
          THEN << VariableInfo(Head(ns).name, "dtype",
                               IF Head(ns).obj.numeric THEN "minmax" ELSE "dtype",
                               Head(ns).obj.n) >>
          ELSE <<>>) \o Arrays(Tail(ns))

get_array_info(ns, mods) ==
    IF ~numpy_available(mods) THEN <<>> ELSE Arrays(ns)

\* get_current_namespace_summary: the names and objects it skips
SkipName_NoQuit(name, obj) ==
    \/ (name # <<>> /\ Head(name) = "_")
    \/ obj.type = "module"
    \/ name \in {N_In, N_Out, N_exit}

SkipName(name, obj) ==
    \/ (name # <<>> /\ Head(name) = "_")
    \/ obj.type = "module"
    \/ name \in {N_In, N_Out, N_exit, N_quit}

\* the try block of get_current_namespace_summary
HasShape(obj) == obj.type \in {"DataFrame", "ndarray"}
HasLen(obj) == obj.type \in {"list", "dict", "NotebookNode", "Broken"}
SummaryFails(obj) == ~HasShape(obj) /\ obj.type = "Broken"

RECURSIVE get_current_namespace_summary(_)
get_current_namespace_summary(ns) ==
    IF ns = <<>> THEN <<>>
    ELSE LET name == Head(ns).name
             obj == Head(ns).obj
         IN (IF SkipName(name, obj) \/ SummaryFails(obj) THEN <<>>
             ELSE << VariableInfo(name, obj.type,
                                  IF HasShape(obj) THEN "shape"
                                  ELSE IF HasLen(obj) THEN "len" ELSE "str",
                                  obj.n) >>)
            \o get_current_namespace_summary(Tail(ns))

\* get_in_out_history: In = user_ns.get('In', user_ns.get('_ih', []))
InSource(ns, ins) == IF HasKey(ns, N_In) \/ HasKey(ns, N_ih) THEN ins ELSE <<>>
OutSource(ns, outs) ==
    IF HasKey(ns, N_Out) \/ HasKey(ns, N_oh) THEN outs ELSE [i \in {} |-> EmptyStr]

\* the stop of range(len(In) - 1, max(-1, len(In) - n_entries - 1), -1)
HistoryStop_OffByOne(len, n) == Max(-1, len - n - 2)

HistoryStop(len, n) == Max(-1, len - n - 1)

\* "not input_cmd or input_cmd.strip().startswith('%%ai')"
SkipInput(input_cmd) ==
    input_cmd = <<>> \/ StartsWith(strip(input_cmd), <<"%", "%", "a", "i">>)

\* "input_cmd.startswith('%') or input_cmd.startswith('get_ipython()')"
IsMagicLine(input_cmd) ==
    StartsWith(input_cmd, <<"%">>) \/ StartsWith(input_cmd, <<"get_ipython()">>)

\* the loop of get_in_out_history, from Python index i down to stop (excluded);
\* In[i] of Python is ins[i + 1]; bool(output) may raise
RECURSIVE HistoryLoop(_, _, _, _, _)
HistoryLoop(ins, outs, i, stop, acc) ==
    IF i <= stop THEN [called |-> TRUE, raised |-> FALSE, value |-> acc]
    ELSE LET input_cmd == ins[i + 1]
             output == IF i \in DOMAIN outs THEN outs[i] ELSE EmptyStr
         IN IF SkipInput(input_cmd) THEN HistoryLoop(ins, outs, i - 1, stop, acc)
            ELSE IF output.truth = "raises"
                 THEN [called |-> TRUE, raised |-> TRUE, value |-> <<>>]
            ELSE IF output.truth = "truthy" \/ ~IsMagicLine(input_cmd)
                 THEN HistoryLoop(ins, outs, i - 1, stop,
                                  Append(acc, [In |-> input_cmd, Out |-> output]))
            ELSE HistoryLoop(ins, outs, i - 1, stop, acc)

get_in_out_history(ns, ins, outs, n) ==
    LET src == InSource(ns, ins) IN
    IF src = <<>> THEN [called |-> TRUE, raised |-> FALSE, value |-> <<>>]
    ELSE HistoryLoop(src, OutSource(ns, outs), Len(src) - 1,
                     HistoryStop(Len(src), n), <<>>)

NoHistory == [called |-> FALSE, raised |-> FALSE, value |-> <<>>]

NoContext ==
    [called |-> FALSE, raised |-> FALSE, dataframes |-> <<>>, arrays |-> <<>>,
     in_out_history |-> <<>>, namespace |-> <<>>, imported_modules |-> <<>>,
     outputs |-> <<>>]

RaisedContext == [NoContext EXCEPT !.called = TRUE, !.raised = TRUE]

\* format_context: the dict literal, its values computed in order
format_context(ns, ins, outs, ec, mods) ==
    LET hist == get_in_out_history(ns, ins, outs, DefaultN)
        outputs == get_output_history(ns, outs, ec, DefaultN)
    IN IF hist.raised \/ outputs.raised THEN RaisedContext
       ELSE [called |-> TRUE, raised |-> FALSE,
             dataframes |-> get_dataframe_info(ns, mods),
             arrays |-> get_array_info(ns, mods),
             in_out_history |-> hist.value,
             namespace |-> get_current_namespace_summary(ns),
             imported_modules |-> get_imported_modules(ns),
             outputs |-> outputs.value]

\* the result of format_context_for_prompt before any call, and a call that
\* raised
NoPrompt == [called |-> FALSE, raised |-> FALSE, sections |-> <<>>, history |-> <<>>]

RaisedPrompt == [NoPrompt EXCEPT !.called = TRUE, !.raised = TRUE]

\* reversed(context['in_out_history'])
Reversed_Identity(entries) == entries

Reversed(entries) == [k \in 1..Len(entries) |-> entries[Len(entries) + 1 - k]]

\* "if entry['Out']" and the f-string f"Out[{i}]: {entry['Out']}": bool() or
\* str() of an output may raise
HistoryLinesFail(entries) ==
    \E k \in 1..Len(entries) :
        \/ entries[k].Out.truth = "raises"
        \/ entries[k].Out.truth = "truthy" /\ entries[k].Out.render = "raises"

\* the loop "for i, entry in enumerate(...)" from position k on: a line
\* In[i] for each entry, and a line Out[i] when the entry has an output
RECURSIVE HistoryLines(_, _)
HistoryLines(entries, k) ==
    IF k > Len(entries) THEN <<>>
    ELSE LET entry == entries[k]
             in_line == [label |-> "In", i |-> k - 1, text |-> entry.In,
                         out |-> EmptyStr]
             out_line == [label |-> "Out", i |-> k - 1, text |-> <<>>,
                          out |-> entry.Out]
         IN (IF entry.Out.truth = "truthy" THEN <<in_line, out_line>>
             ELSE <<in_line>>) \o HistoryLines(entries, k + 1)

\* format_context_for_prompt, given the dict of format_context: the titles of
\* the sections it joins, and the lines of the history section
format_context_for_prompt(ctx) ==
    IF ctx.raised THEN RaisedPrompt
    ELSE LET entries == Reversed(ctx.in_out_history) IN
         IF HistoryLinesFail(entries) THEN RaisedPrompt
         ELSE [called |-> TRUE, raised |-> FALSE,
               sections |->
                  (IF ctx.dataframes # <<>> THEN <<"DataFrames:">> ELSE <<>>)
                  \o (IF ctx.arrays # <<>> THEN <<"NumPy Arrays:">> ELSE <<>>)
                  \o (IF ctx.in_out_history # <<>>
                      THEN <<"Recent In/Out History:">> ELSE <<>>)
                  \o (IF ctx.imported_modules # <<>>
                      THEN <<"Imported Modules: ">> ELSE <<>>),
               history |-> HistoryLines(entries, 1)]

(***************************************************************************)
(* The initial state: a fresh shell, no magic run, no exception raised.    *)
(***************************************************************************)
EmptyDict == [c \in {} |-> None]

NoChunk ==
    [type |-> "none", delta |-> <<>>, item_id |-> None,
     item |-> [type |-> None, id |-> None, name |-> None]]

NoHandle == [id |-> 0, data |-> <<>>]

NoGm == [exists |-> FALSE, content |-> <<>>]

NoCode == [isNone |-> TRUE, text |-> <<>>]

InitCtxVars ==
    /\ context = NoContext
    /\ history = NoHistory
    /\ n_entries = 0
    /\ prompt = NoPrompt

InitAiVars ==
    /\ ai_pc = "idle"
    /\ ai_outcome = "none"
    /\ function_call_buffers = EmptyDict
    /\ full_response = <<>>
    /\ display_handle = NoHandle
    /\ chunk = NoChunk
    /\ next_input = <<>>
    /\ creates = 0
    /\ invocations = 0
    /\ nchunks = 0
    /\ total_chunks = 0
    /\ fragments = <<>>
    /\ arrived = EmptyDict

InitExcVars ==
    /\ registered = FALSE
    /\ exc_pc = "idle"
    /\ etype = None
    /\ shown = 0
    /\ gm = NoGm
    /\ code = NoCode
    /\ exc_context = NoContext
    /\ requests = 0
    /\ printed = 0
    /\ exc_outcome = "none"
    /\ exceptions = 0

\* a fresh shell: In = [''], Out = {}, execution_count = 1
FreshHistory ==
    /\ In = << <<>> >>
    /\ Out = [i \in {} |-> EmptyStr]
    /\ execution_count = 1

(***************************************************************************)
(* The host shell: running cells, binding names, importing libraries.      *)
(***************************************************************************)
NoOutput == OutVal("<none>", "falsy", "plain")  \* the running cell left no Out

\* The cell being run ends, leaving output o in Out[execution_count] unless it
\* is NoOutput, and the next cell, of source input_cmd, starts: it is appended
\* to In, and execution_count = len(In) - 1 while it runs.
RunCell(input_cmd, o) ==
    /\ Len(In) <= MaxHist
    /\ ai_pc = "idle" /\ exc_pc = "idle"
    /\ IF Len(In) = 1
       THEN o = NoOutput /\ UNCHANGED Out
       ELSE Out' = IF o = NoOutput THEN Out
                   ELSE [i \in DOMAIN Out \cup {execution_count} |->
                            IF i = execution_count THEN o ELSE Out[i]]
    /\ In' = Append(In, input_cmd)
    /\ execution_count' = Len(In)
    /\ context' = NoContext
    /\ history' = NoHistory
    /\ n_entries' = 0
    /\ prompt' = NoPrompt
    /\ UNCHANGED <<user_ns, sys_modules, ai_vars, exc_vars>>

\* dict assignment: a bound name keeps its place, a new one goes last
SetItem(ns, name, obj) ==
    IF HasKey(ns, name)
    THEN [i \in 1..Len(ns) |-> IF ns[i].name = name THEN Binding(name, obj) ELSE ns[i]]
    ELSE Append(ns, Binding(name, obj))

\* the user binds name to obj; a DataFrame or an array exists only once its
\* library is imported
Bind(name, obj) ==
    /\ Len(user_ns) < Len(BaseNs) + MaxVars
    /\ obj.type = "DataFrame" => "pandas" \in sys_modules
    /\ obj.type = "ndarray" => "numpy" \in sys_modules
    /\ user_ns' = SetItem(user_ns, name, obj)
    /\ context' = NoContext
    /\ prompt' = NoPrompt
    /\ UNCHANGED <<In, Out, execution_count, sys_modules, history, n_entries,
                   ai_vars, exc_vars>>

\* import pandas / import numpy somewhere in the process
ImportLib(lib) ==
    /\ lib \notin sys_modules
    /\ user_ns = BaseNs
    /\ sys_modules' = sys_modules \cup {lib}
    /\ UNCHANGED <<user_ns, In, Out, execution_count, ctx_vars, ai_vars, exc_vars>>

(***************************************************************************)
(* The calls of NotebookContext.                                           *)
(***************************************************************************)
\* NotebookContext(shell).format_context()
Snapshot ==
    /\ context' = format_context(user_ns, In, Out, execution_count, sys_modules)
    /\ history' = NoHistory
    /\ n_entries' = 0
    /\ prompt' = NoPrompt
    /\ UNCHANGED <<shell_vars, ai_vars, exc_vars>>

\* NotebookContext(shell).get_in_out_history(n)
GetHistory(n) ==
    /\ history' = get_in_out_history(user_ns, In, Out, n)
    /\ n_entries' = n
    /\ context' = NoContext
    /\ prompt' = NoPrompt
    /\ UNCHANGED <<shell_vars, ai_vars, exc_vars>>

\* ---- the history and the outputs of a session
InitHist ==
    /\ user_ns \in {BaseNs, NbNs}
    /\ sys_modules = {"pandas"}
    /\ FreshHistory
    /\ InitCtxVars /\ InitAiVars /\ InitExcVars

NextHist ==
    \/ \E input_cmd \in InputCmds, o \in OutVals \cup {NoOutput} : RunCell(input_cmd, o)
    \/ \E n \in 0..MaxN : GetHistory(n)
    \/ Snapshot

SpecHist == InitHist /\ [][NextHist]_vars

\* ---- the namespace of a session
InitNs ==
    /\ user_ns = BaseNs
    /\ sys_modules = {}
    /\ FreshHistory
    /\ InitCtxVars /\ InitAiVars /\ InitExcVars

NextNs ==
    \/ \E name \in UserNames, obj \in UserObjects : Bind(name, obj)
    \/ \E lib \in {"pandas", "numpy"} : ImportLib(lib)
    \/ Snapshot

SpecNs == InitNs /\ [][NextNs]_vars

\* ---- the prompt text of a session
\* NotebookContext(shell).format_context_for_prompt()
FormatPrompt ==
    /\ LET ctx == format_context(user_ns, In, Out, execution_count, sys_modules) IN
          /\ context' = ctx
          /\ prompt' = format_context_for_prompt(ctx)
    /\ history' = NoHistory
    /\ n_entries' = 0
    /\ UNCHANGED <<shell_vars, ai_vars, exc_vars>>

InitPrompt ==
    /\ user_ns \in {BaseNs, NbNs}
    /\ sys_modules = {"pandas"}
    /\ FreshHistory
    /\ InitCtxVars /\ InitAiVars /\ InitExcVars

NextPrompt ==
    \/ \E input_cmd \in InputCmds, o \in OutVals \cup {NoOutput} : RunCell(input_cmd, o)
    \/ FormatPrompt

SpecPrompt == InitPrompt /\ [][NextPrompt]_vars

(***************************************************************************)
(* json.loads on the argument buffer of a tool call.  The glyphs of an     *)
(* argument string are { } : the digit 1 and the string literals 'cell',   *)
(* 'a' and 'x' (each one glyph, standing for the quoted JSON string).      *)
(* A JSON value is a number, a string or an object of at most one member.  *)
(***************************************************************************)
StrLits == {"'cell'", "'a'", "'x'"}

StrVal(g) == IF g = "'cell'" THEN "cell" ELSE IF g = "'a'" THEN "a" ELSE "x"

JNone == [t |-> "none", n |-> 0, s |-> "", m |-> <<>>]
JNum(n) == [t |-> "num", n |-> n, s |-> "", m |-> <<>>]
JStr(str) == [t |-> "str", n |-> 0, s |-> str, m |-> <<>>]
JObj(members) == [t |-> "obj", n |-> 0, s |-> "", m |-> members]

ParseFail == [ok |-> FALSE, val |-> JNone, next |-> 0]

\* the digits of s from position i on: the number read and where it ends
RECURSIVE ParseDigits(_, _, _)
ParseDigits(s, i, acc) ==
    IF i <= Len(s) /\ s[i] = "1" THEN ParseDigits(s, i + 1, 10 * acc + 1)
    ELSE [ok |-> TRUE, val |-> JNum(acc), next |-> i]

\* the JSON value of s that starts at position i, and the position after it
RECURSIVE ParseValue(_, _)
ParseValue(s, i) ==
    IF i > Len(s) THEN ParseFail
    ELSE IF s[i] = "1" THEN ParseDigits(s, i, 0)
    ELSE IF s[i] \in StrLits
         THEN [ok |-> TRUE, val |-> JStr(StrVal(s[i])), next |-> i + 1]
    ELSE IF s[i] # "{" THEN ParseFail
    ELSE IF i + 1 <= Len(s) /\ s[i + 1] = "}"
         THEN [ok |-> TRUE, val |-> JObj(<<>>), next |-> i + 2]
    ELSE IF i + 2 <= Len(s) /\ s[i + 1] \in StrLits /\ s[i + 2] = ":"
         THEN LET v == ParseValue(s, i + 3) IN
              IF v.ok /\ v.next <= Len(s) /\ s[v.next] = "}"
              THEN [ok |-> TRUE,
                    val |-> JObj(<< <<StrVal(s[i + 1]), v.val>> >>),
                    next |-> v.next + 1]
              ELSE ParseFail
    ELSE ParseFail

\* json.loads(s): ok is FALSE where it raises json.JSONDecodeError
json_loads(s) ==
    LET r == ParseValue(s, 1) IN
    IF r.ok /\ r.next = Len(s) + 1 THEN [ok |-> TRUE, val |-> r.val]
    ELSE [ok |-> FALSE, val |-> JNone]

\* "key in args": defined on objects (a key) and strings (a substring, here
\* the whole string); a TypeError on a number
SupportsIn(args) == args.t \in {"obj", "str"}
Contains(args, key) ==
    IF args.t = "obj" THEN \E k \in 1..Len(args.m) : args.m[k][1] = key
    ELSE args.t = "str" /\ args.s = key

\* args[key] of an object that has the key
GetItem(args, key) ==
    LET k == CHOOSE j \in 1..Len(args.m) : args.m[j][1] = key IN args.m[k][2]

\* len(value): a TypeError on a number
SupportsLen(value) == value.t \in {"obj", "str"}

(***************************************************************************)
(* AIContextMagics.ai (src/intheloop/magic.py).                            *)
(***************************************************************************)
TextDelta == "response.output_text.delta"
ItemAdded == "response.output_item.added"
ArgsDelta == "response.function_call_arguments.delta"
ArgsDone == "response.function_call_arguments.done"
Completed == "response.completed"

CallIds == {"fc_1", "fc_2"}
Names == {"CreateCell", "Other"}
TextDeltas == { <<"a">>, <<"b">> }
ArgDeltas ==
    { <<"{", "'cell'", ":">>, <<"{", "'a'", ":">>, <<"'x'", "}">>, <<"1">> }

NoItem == [type |-> None, id |-> None, name |-> None]

\* the chunks a stream may deliver
Chunks ==
    { [type |-> TextDelta, delta |-> d, item_id |-> None, item |-> NoItem] :
        d \in TextDeltas }
    \cup { [type |-> ItemAdded, delta |-> <<>>, item_id |-> None,
            item |-> [type |-> "function_call", id |-> c, name |-> x]] :
            c \in CallIds, x \in Names }
    \cup { [type |-> ItemAdded, delta |-> <<>>, item_id |-> None,
            item |-> [type |-> "function_call", id |-> None, name |-> "CreateCell"]] }
    \cup { [type |-> ItemAdded, delta |-> <<>>, item_id |-> None,
            item |-> [type |-> "message", id |-> "fc_1", name |-> None]] }
    \cup { [type |-> ArgsDelta, delta |-> d, item_id |-> c, item |-> NoItem] :
            d \in ArgDeltas, c \in CallIds }
    \cup { [type |-> ArgsDelta, delta |-> <<"1">>, item_id |-> None, item |-> NoItem] }
    \cup { [type |-> ArgsDone, delta |-> <<>>, item_id |-> c, item |-> NoItem] :
            c \in CallIds \cup {None} }
    \cup { [type |-> Completed, delta |-> <<>>, item_id |-> None, item |-> NoItem] }

\* "if call_id:"
Truthy(call_id) == call_id # None

\* dict helpers for function_call_buffers
DictSet(d, key, value) ==
    [k \in DOMAIN d \cup {key} |-> IF k = key THEN value ELSE d[k]]
DictDel(d, key) == [k \in DOMAIN d \ {key} |-> d[k]]

\* "full_response += chunk.delta"
UpdateText_Replace(full, delta) == delta

UpdateText(full, delta) == full \o delta

\* "self.function_call_buffers[current_call_id]['arguments'] += chunk_dict['delta']"
AppendArguments_Prepend(arguments, delta) == delta \o arguments

AppendArguments(arguments, delta) == arguments \o delta

\* the arguments-delta branch (lines 137-143): the delta is appended to the
\* buffer of current_call_id if there is one, and dropped otherwise
AccumulateDelta_SetDefault(buffers, current_call_id, delta) ==
    IF current_call_id \in DOMAIN buffers
    THEN [buffers EXCEPT ![current_call_id].arguments = AppendArguments(@, delta)]
    ELSE DictSet(buffers, current_call_id,
                 [name |-> None, arguments |-> delta, call_id |-> current_call_id])

AccumulateDelta(buffers, current_call_id, delta) ==
    IF current_call_id \in DOMAIN buffers
    THEN [buffers EXCEPT ![current_call_id].arguments = AppendArguments(@, delta)]
    ELSE buffers

\* display_handle.update(Markdown(text)) under "if display_handle:"
Update(handle, text) == IF handle.id # 0 THEN [handle EXCEPT !.data = text] ELSE handle

\* the try block of the done branch: what it does with the buffer func_call.
\* The f-strings given to debug_print are evaluated whether or not debug is
\* on: len(args['cell']) before set_next_input, 'cell' in args in the else.
ExecuteCall(func_call) ==
    LET r == json_loads(func_call.arguments)
        args == r.val
    IN IF ~r.ok THEN [exc |-> "JSONDecodeError", parsed |-> FALSE, insert |-> FALSE]
       ELSE IF ~SupportsIn(args)
            THEN [exc |-> "TypeError", parsed |-> TRUE, insert |-> FALSE]
       ELSE IF func_call.name = "CreateCell" /\ Contains(args, "cell")
            THEN IF args.t # "obj" \/ ~SupportsLen(GetItem(args, "cell"))
                 THEN [exc |-> "TypeError", parsed |-> TRUE, insert |-> FALSE]
                 ELSE [exc |-> None, parsed |-> TRUE, insert |-> TRUE]
       ELSE [exc |-> None, parsed |-> TRUE, insert |-> FALSE]

\* "except json.JSONDecodeError" and "except Exception" of the done branch
CaughtInLoop_OnlyTypeError(exc) == exc = "TypeError"

CaughtInLoop(exc) == exc \in {"JSONDecodeError", "TypeError"}

\* the error shown by the handler at the top level of ai
ErrorText == <<"Error: ">>

NoCall == [name |-> None, deltas |-> <<>>, completed |-> <<>>, inserted |-> <<>>]

\* the history of the calls started in this invocation, after chunk c
ArrivedAfter(c) ==
    IF c.type = ItemAdded /\ c.item.type = "function_call" /\ Truthy(c.item.id)
    THEN DictSet(arrived, c.item.id, [NoCall EXCEPT !.name = c.item.name])
    ELSE IF c.item_id \notin DOMAIN arrived
            \/ c.item_id \notin DOMAIN function_call_buffers
    THEN arrived
    ELSE IF c.type = ArgsDelta
    THEN [arrived EXCEPT ![c.item_id].deltas = @ \o c.delta]
    ELSE IF c.type = ArgsDone
    THEN LET e == ExecuteCall(function_call_buffers[c.item_id])
             args == json_loads(function_call_buffers[c.item_id].arguments).val
         IN [arrived EXCEPT
               ![c.item_id].completed = IF e.parsed THEN Append(@, args) ELSE @,
               ![c.item_id].inserted =
                   IF e.insert THEN Append(@, GetItem(args, "cell")) ELSE @]
    ELSE arrived

\* the magic is invoked (lines 59-106): the context is gathered outside the
\* try block, the placeholder is displayed, and the streaming call is opened;
\* create_ok is whether client.responses.create returns a stream
AiInvoke(create_ok) ==
    /\ ai_pc = "idle" /\ exc_pc = "idle"
    /\ invocations < MaxInvocations
    /\ invocations' = invocations + 1
    /\ chunk' = NoChunk
    /\ nchunks' = 0
    /\ fragments' = <<>>
    /\ arrived' = EmptyDict
    /\ full_response' = <<>>
    /\ LET ctx == format_context(user_ns, In, Out, execution_count, sys_modules)
           context_str == format_context_for_prompt(ctx)
       IN
       IF context_str.raised
       THEN /\ ai_pc' = "idle"
            /\ ai_outcome' = "raised"
            /\ creates' = 0
            /\ UNCHANGED display_handle
       ELSE /\ creates' = 1
            /\ IF create_ok
               THEN /\ ai_pc' = "stream"
                    /\ ai_outcome' = "running"
                    /\ display_handle' =
                          [id |-> invocations + 1, data |-> <<"_Thinking..._">>]
               ELSE /\ ai_pc' = "idle"
                    /\ ai_outcome' = "failed"
                    /\ display_handle' = [id |-> invocations + 1, data |-> ErrorText]
    /\ UNCHANGED <<shell_vars, ctx_vars, function_call_buffers, next_input,
                   total_chunks, exc_vars>>

\* one turn of "for chunk in response" (lines 110-182)
AiChunk(c) ==
    /\ ai_pc = "stream"
    /\ total_chunks < MaxChunks
    /\ (c.type = ArgsDelta /\ c.item_id \in DOMAIN function_call_buffers) =>
          Len(function_call_buffers[c.item_id].arguments) + Len(c.delta) <= MaxArgLen
    /\ chunk' = c
    /\ nchunks' = nchunks + 1
    /\ total_chunks' = total_chunks + 1
    /\ arrived' = ArrivedAfter(c)
    /\ fragments' = IF c.type = TextDelta THEN Append(fragments, c.delta) ELSE fragments
    /\ UNCHANGED <<shell_vars, ctx_vars, creates, invocations, exc_vars>>
    /\ IF c.type = TextDelta
       THEN /\ full_response' = UpdateText(full_response, c.delta)
            /\ display_handle' = Update(display_handle, full_response')
            /\ UNCHANGED <<ai_pc, ai_outcome, function_call_buffers, next_input>>
       ELSE IF c.type = ItemAdded /\ c.item.type = "function_call"
       THEN /\ function_call_buffers' =
                  IF Truthy(c.item.id)
                  THEN DictSet(function_call_buffers, c.item.id,
                               [name |-> c.item.name, arguments |-> <<>>,
                                call_id |-> c.item.id])
                  ELSE function_call_buffers
            /\ UNCHANGED <<ai_pc, ai_outcome, full_response, display_handle, next_input>>
       ELSE IF c.type = ArgsDelta
       THEN /\ function_call_buffers' =
                  AccumulateDelta(function_call_buffers, c.item_id, c.delta)
            /\ UNCHANGED <<ai_pc, ai_outcome, full_response, display_handle, next_input>>
       ELSE IF c.type = ArgsDone /\ c.item_id \in DOMAIN function_call_buffers
       THEN LET func_call == function_call_buffers[c.item_id]
                e == ExecuteCall(func_call)
                args == json_loads(func_call.arguments).val
            IN IF e.exc # None /\ ~CaughtInLoop(e.exc)
               THEN \* the exception reaches "except Exception" at the top level
                    /\ ai_pc' = "idle"
                    /\ ai_outcome' = "failed"
                    /\ display_handle' = Update(display_handle, ErrorText)
                    /\ UNCHANGED <<function_call_buffers, full_response, next_input>>
               ELSE /\ next_input' = IF e.insert
                                     THEN Append(next_input, GetItem(args, "cell"))
                                     ELSE next_input
                    /\ display_handle' = IF e.insert THEN Update(display_handle, <<>>)
                                         ELSE display_handle
                    /\ function_call_buffers' =
                          IF e.exc = None THEN DictDel(function_call_buffers, c.item_id)
                          ELSE function_call_buffers
                    /\ UNCHANGED <<ai_pc, ai_outcome, full_response>>
       ELSE UNCHANGED <<ai_pc, ai_outcome, function_call_buffers, full_response,
                        display_handle, next_input>>

\* the stream is exhausted: the loop ends and ai returns
AiStreamEnd ==
    /\ ai_pc = "stream"
    /\ ai_pc' = "idle"
    /\ ai_outcome' = "returned"
    /\ UNCHANGED <<shell_vars, ctx_vars, function_call_buffers, full_response,
                   display_handle, chunk, next_input, creates, invocations, nchunks,
                   total_chunks, fragments, arrived, exc_vars>>

\* reading the next chunk raises (the network fails): "except Exception as e"
AiStreamError ==
    /\ ai_pc = "stream"
    /\ ai_pc' = "idle"
    /\ ai_outcome' = "failed"
    /\ display_handle' = Update(display_handle, ErrorText)
    /\ UNCHANGED <<shell_vars, ctx_vars, function_call_buffers, full_response,
                   chunk, next_input, creates, invocations, nchunks, total_chunks,
                   fragments, arrived, exc_vars>>

\* the user interrupts the cell while it waits for a chunk: KeyboardInterrupt
\* is no Exception and leaves ai
AiInterrupt ==
    /\ ai_pc = "stream"
    /\ ai_pc' = "idle"
    /\ ai_outcome' = "interrupted"
    /\ UNCHANGED <<shell_vars, ctx_vars, function_call_buffers, full_response,
                   display_handle, chunk, next_input, creates, invocations, nchunks,
                   total_chunks, fragments, arrived, exc_vars>>

\* a session in which the magic is the first cell, and one in which the cell
\* before it left a DataFrame in Out
Sessions ==
    { [In |-> << <<>>, <<"%", "%", "a", "i">> >>,
       Out |-> [i \in {} |-> EmptyStr], execution_count |-> 1],
      [In |-> << <<>>, <<"x">>, <<"%", "%", "a", "i">> >>,
       Out |-> [i \in {1} |-> OutDataFrame], execution_count |-> 2] }

InitAi ==
    /\ user_ns = BaseNs
    /\ sys_modules = {"pandas"}
    /\ \E session \in Sessions :
          /\ In = session.In
          /\ Out = session.Out
          /\ execution_count = session.execution_count
    /\ InitCtxVars /\ InitAiVars /\ InitExcVars

NextAi ==
    \/ \E create_ok \in BOOLEAN : AiInvoke(create_ok)
    \/ \E c \in Chunks : AiChunk(c)
    \/ AiStreamEnd
    \/ AiStreamError
    \/ AiInterrupt

SpecAi == InitAi /\ [][NextAi]_vars

(***************************************************************************)
(* InTheLoop (src/intheloop/recommendations.py) and the host's dispatch of *)
(* an exception raised in a cell.                                          *)
(***************************************************************************)
ExceptionTypes == {"ZeroDivisionError", "KeyboardInterrupt", "SystemExit"}

\* issubclass(etype, Exception): the types register() hooks, (Exception,)
HookedByRegister(e) == e \notin {"KeyboardInterrupt", "SystemExit"}

\* "if etype == KeyboardInterrupt: return / elif etype == SystemExit: return"
LetItBe_OnlyExit(e) == e = "SystemExit"

LetItBe(e) == e \in {"KeyboardInterrupt", "SystemExit"}

\* the keys of the dict format_context returns
ContextKeys ==
    {"dataframes", "arrays", "in_out_history", "namespace", "imported_modules",
     "outputs"}

\* the keys _format_context_for_message reads with context[...]
MessageKeys == {"dataframes", "arrays", "recent_history", "imported_modules"}

\* _format_context_for_message: context[key] of a missing key is a KeyError
format_context_for_message(keys) ==
    [raised |-> ~(MessageKeys \subseteq keys)]

\* history_manager.input_hist_raw: the raw inputs, as long as In
input_hist_raw(ins) == ins

\* _get_current_code: shell.user_ns["In"] of a namespace without In raises
get_current_code(ns, ins, ec) ==
    IF ~HasKey(ns, N_In) THEN [raised |-> TRUE, value |-> NoCode]
    ELSE IF ec = Len(input_hist_raw(ins)) - 1
         THEN [raised |-> FALSE,
               value |-> [isNone |-> FALSE, text |-> input_hist_raw(ins)[ec + 1]]]
    ELSE IF ec = Len(ins) - 1
         THEN [raised |-> FALSE, value |-> [isNone |-> FALSE, text |-> ins[ec + 1]]]
    ELSE [raised |-> FALSE, value |-> NoCode]

\* register(ipython): ipython.set_custom_exc((Exception,), itl.custom_exc)
Register ==
    /\ ~registered
    /\ exc_pc = "idle"
    /\ registered' = TRUE
    /\ UNCHANGED <<shell_vars, ctx_vars, ai_vars, exc_pc, etype, shown, gm, code,
                   exc_context, requests, printed, exc_outcome, exceptions>>

\* custom_exc up to its early returns (lines 89-97): the traceback is shown,
\* and the call returns for an interrupt or an exit
CustomExcEnter(e) ==
    /\ shown' = 1
    /\ IF LetItBe(e)
       THEN exc_pc' = "idle" /\ exc_outcome' = "returned"
       ELSE exc_pc' = "code" /\ exc_outcome' = "running"

\* a cell raises e: the host calls the hook for the types it is registered
\* for, and shows the traceback itself for the others
HostRaise(e) ==
    /\ exc_pc = "idle" /\ ai_pc = "idle"
    /\ exceptions < MaxExceptions
    /\ exceptions' = exceptions + 1
    /\ etype' = e
    /\ gm' = NoGm /\ code' = NoCode /\ exc_context' = NoContext
    /\ requests' = 0 /\ printed' = 0
    /\ IF registered /\ HookedByRegister(e)
       THEN CustomExcEnter(e)
       ELSE shown' = 1 /\ exc_pc' = "idle" /\ exc_outcome' = "host"
    /\ UNCHANGED <<shell_vars, ctx_vars, ai_vars, registered>>

\* custom_exc is called with e by a caller other than the host's dispatch of
\* (Exception,): the method takes any exception type
CallCustomExc(e) ==
    /\ exc_pc = "idle" /\ ai_pc = "idle"
    /\ exceptions < MaxExceptions
    /\ exceptions' = exceptions + 1
    /\ etype' = e
    /\ gm' = NoGm /\ code' = NoCode /\ exc_context' = NoContext
    /\ requests' = 0 /\ printed' = 0
    /\ CustomExcEnter(e)
    /\ UNCHANGED <<shell_vars, ctx_vars, ai_vars, registered>>

\* "code = self._get_current_code(shell)"; an exception goes to
\* "except Exception", which prints and returns
ExcGetCode ==
    /\ exc_pc = "code"
    /\ LET r == get_current_code(user_ns, In, execution_count) IN
       IF r.raised
       THEN /\ printed' = printed + 1
            /\ exc_pc' = "idle" /\ exc_outcome' = "returned"
            /\ UNCHANGED code
       ELSE /\ code' = r.value
            /\ exc_pc' = "context"
            /\ UNCHANGED <<printed, exc_outcome>>
    /\ UNCHANGED <<shell_vars, ctx_vars, ai_vars, registered, etype, shown, gm,
                   exc_context, requests, exceptions>>

\* "context = self.gather_context(shell)" and the first display of gm
ExcGatherContext ==
    /\ exc_pc = "context"
    /\ LET ctx == format_context(user_ns, In, Out, execution_count, sys_modules) IN
       IF ctx.raised
       THEN /\ printed' = printed + 1
            /\ exc_pc' = "idle" /\ exc_outcome' = "returned"
            /\ UNCHANGED <<exc_context, gm>>
       ELSE /\ exc_context' = ctx
            /\ gm' = [exists |-> TRUE, content |-> <<"Analyzing context and seeking solution...">>]
            /\ exc_pc' = "suggest"
            /\ UNCHANGED <<printed, exc_outcome>>
    /\ UNCHANGED <<shell_vars, ctx_vars, ai_vars, registered, etype, shown, code,
                   requests, exceptions>>

\* the rest of the try block (lines 106-140): the traceback is formatted, the
\* messages are formed from the context, the request is sent and its chunks
\* are appended to a new gm; text is what the stream delivers
ExcSuggest(text) ==
    /\ exc_pc = "suggest"
    /\ exc_pc' = "idle"
    /\ exc_outcome' = "returned"
    /\ IF format_context_for_message(ContextKeys).raised
       THEN /\ printed' = printed + 1
            /\ UNCHANGED <<gm, requests>>
       ELSE /\ requests' = requests + 1
            /\ gm' = [exists |-> TRUE, content |-> <<"Investigating...">> \o text]
            /\ UNCHANGED printed
    /\ UNCHANGED <<shell_vars, ctx_vars, ai_vars, registered, etype, shown, code,
                   exc_context, exceptions>>

\* the user interrupts the suggestion: "except KeyboardInterrupt" appends the
\* marker to gm when gm is bound
ExcInterrupt ==
    /\ exc_pc \in {"code", "context", "suggest"}
    /\ exc_pc' = "idle"
    /\ exc_outcome' = "interrupted"
    /\ gm' = IF gm.exists
             THEN [gm EXCEPT !.content = Append(@, "> **Interrupted**")]
             ELSE gm
    /\ UNCHANGED <<shell_vars, ctx_vars, ai_vars, registered, etype, shown, code,
                   exc_context, requests, printed, exceptions>>

\* the sessions an exception is raised in: those of the magic, and one whose
\* cell runs with store_history=False
ExcSessions ==
    Sessions \cup
    { [In |-> << <<>>, <<"x">> >>, Out |-> [i \in {} |-> EmptyStr],
       execution_count |-> 2] }

InitExc ==
    /\ user_ns \in {BaseNs, NbNs}
    /\ sys_modules = {"pandas"}
    /\ \E session \in ExcSessions :
          /\ In = session.In
          /\ Out = session.Out
          /\ execution_count = session.execution_count
    /\ InitCtxVars /\ InitAiVars /\ InitExcVars

NextExc ==
    \/ Register
    \/ \E e \in ExceptionTypes : HostRaise(e)
    \/ \E e \in ExceptionTypes : CallCustomExc(e)
    \/ ExcGetCode
    \/ ExcGatherContext
    \/ \E text \in TextDeltas : ExcSuggest(text)
    \/ ExcInterrupt

SpecExc == InitExc /\ [][NextExc]_vars

(***************************************************************************)
(* Claims about NotebookContext.                                           *)
(***************************************************************************)
\* C8: building a snapshot never raises: whenever format_context has been
\* called it returned a snapshot (a failing item is left out, nothing more).
C8_FormatContextNeverRaises == context.called => ~context.raised

\* the entry e of a returned history is a recorded output of its input
RecordedOutput(e) ==
    \E i \in DOMAIN OutSource(user_ns, Out) :
        /\ i + 1 \in 1..Len(In)
        /\ In[i + 1] = e.In
        /\ Out[i] = e.Out

\* C9: get_in_out_history(N) returns at most N entries, none with an empty
\* input, none whose input starts with %%ai after leading blanks, and none
\* whose input starts with % or get_ipython() and has no recorded output.
C9_HistoryBoundedAndFiltered ==
    (history.called /\ ~history.raised) =>
        /\ Len(history.value) <= n_entries
        /\ \A k \in 1..Len(history.value) :
              LET e == history.value[k] IN
              /\ e.In # <<>>
              /\ ~StartsWith(lstrip(e.In), <<"%", "%", "a", "i">>)
              /\ (Head(e.In) \in {"%", "get_ipython()"}) => RecordedOutput(e)

\* two entries asked of a history of three cells whose last is a line magic
\* without output (left out) and whose second is a get_ipython() call with an
\* output (returned)
C9_Witness ==
    /\ history.called /\ ~history.raised
    /\ n_entries = 2
    /\ Len(In) = 4
    /\ In[4] = <<"%", "x">>
    /\ In[2] = <<" ", "%", "%", "a", "i">>
    /\ Len(history.value) = 1
    /\ history.value[1] = [In |-> <<"get_ipython()">>, Out |-> OutHi]

\* C10: no name that starts with '_' or is In, Out, exit or quit, and no name
\* bound to a module, is in the summary of get_current_namespace_summary.
C10_NamespaceSummaryFiltered ==
    (context.called /\ ~context.raised) =>
        \A k \in 1..Len(context.namespace) :
            LET name == context.namespace[k].name IN
            /\ Head(name) # "_"
            /\ name \notin ReservedNames
            /\ HasKey(user_ns, name)
            /\ Lookup(user_ns, name).type # "module"

\* a namespace with private names, reserved names, a module np and a
\* DataFrame df: the summary holds df alone
C10_Witness ==
    /\ context.called /\ ~context.raised
    /\ HasKey(user_ns, N_ih) /\ HasKey(user_ns, N_quit)
    /\ HasKey(user_ns, <<"n", "p">>)
    /\ Lookup(user_ns, <<"n", "p">>).type = "module"
    /\ Len(context.namespace) = 1
    /\ context.namespace[1].name = <<"d", "f">>

(***************************************************************************)
(* Claims about the ai magic.                                              *)
(***************************************************************************)
\* a turn of the loop of ai that reads a chunk of type t for call id c
ReadsChunk(t, c) ==
    /\ ai_pc = "stream"
    /\ nchunks' = nchunks + 1
    /\ chunk'.type = t
    /\ chunk'.item_id = c

\* C1: after start(c, X) and deltas d1..dk whose concatenation is JSON, done(c)
\* yields exactly one completed call, with the JSON value of d1+...+dk, and
\* removes the buffer of c; for X = CreateCell and arguments holding 'cell',
\* set_next_input is called once with that cell and the display is cleared.
C1_DoneCompletesCall ==
    [][\A c \in CallIds :
        (/\ ReadsChunk(ArgsDone, c)
         /\ c \in DOMAIN arrived
         /\ c \in DOMAIN function_call_buffers
         /\ arrived[c].completed = <<>>
         /\ json_loads(arrived[c].deltas).ok)
        => LET args == json_loads(arrived[c].deltas).val IN
           /\ arrived'[c].completed = <<args>>
           /\ c \notin DOMAIN function_call_buffers'
           /\ (arrived[c].name = "CreateCell" /\ args.t = "obj" /\ Contains(args, "cell"))
                 => /\ arrived'[c].inserted = <<GetItem(args, "cell")>>
                    /\ next_input' = Append(next_input, GetItem(args, "cell"))
                    /\ display_handle'.data = <<>>]_vars

\* C4: a done event whose buffer is not valid JSON has no side effect
\* (set_next_input is not called, the display is not changed) and no
\* exception leaves the loop: the stream is still being read afterwards.
C4_MalformedArgumentsSwallowed ==
    [][\A c \in CallIds :
        (/\ ReadsChunk(ArgsDone, c)
         /\ c \in DOMAIN function_call_buffers
         /\ ~json_loads(function_call_buffers[c].arguments).ok)
        => /\ next_input' = next_input
           /\ display_handle' = display_handle
           /\ ai_pc' = "stream"
           /\ ai_outcome' = ai_outcome]_vars

\* the loop has just read done(c) for a buffer that holds half an object, and
\* goes on
C4_Witness ==
    /\ ai_pc = "stream"
    /\ chunk.type = ArgsDone
    /\ chunk.item_id \in DOMAIN function_call_buffers
    /\ function_call_buffers[chunk.item_id].arguments = <<"{", "'cell'", ":">>
    /\ next_input = <<>>

\* the concatenation of a sequence of strings
RECURSIVE Concat(_)
Concat(strs) == IF strs = <<>> THEN <<>> ELSE Head(strs) \o Concat(Tail(strs))

\* C5: right after each plain-text fragment the display shows the
\* concatenation, in arrival order, of all the text fragments so far, whatever
\* tool-call events came between them; a stream of text fragments alone ends
\* with the display showing all of them in order.
C5_DisplayShowsAllText ==
    /\ (ai_pc = "stream" /\ chunk.type = TextDelta) =>
          display_handle.data = Concat(fragments)
    /\ (ai_pc = "idle" /\ ai_outcome = "returned" /\ nchunks >= 1
        /\ Len(fragments) = nchunks) =>
          display_handle.data = Concat(fragments)

\* two different fragments with the start and the first delta of a tool call
\* between them
C5_Witness ==
    /\ ai_pc = "stream"
    /\ chunk.type = TextDelta
    /\ fragments = << <<"a">>, <<"b">> >>
    /\ \E c \in DOMAIN function_call_buffers :
          function_call_buffers[c].arguments # <<>>

\* C6: every invocation of ai opens exactly one streaming call; when the call
\* or the reading of its chunks raises, the error is displayed, the
\* invocation is over and no second call is made.
C6_ExactlyOneStreamingCall ==
    /\ ai_pc = "stream" => creates = 1
    /\ (ai_pc = "idle" /\ invocations > 0) => creates = 1
    /\ ai_outcome = "failed" => (ai_pc = "idle" /\ display_handle.data = ErrorText)

\* C7: no exception other than an interrupt or an exit leaves ai or
\* custom_exc.
C7_NoExceptionPropagates ==
    /\ ai_outcome # "raised"
    /\ exc_outcome # "raised"

(***************************************************************************)
(* Claims about the exception hook.                                        *)
(***************************************************************************)
\* C2: for an exception that is neither KeyboardInterrupt nor SystemExit,
\* custom_exc shows the traceback, obtains a snapshot and sends the code, the
\* traceback and the snapshot to the model: exactly one completion request
\* has been issued when it returns with the snapshot obtained.
C2_OneRequestPerException ==
    (/\ exc_pc = "idle"
     /\ exc_outcome = "returned"
     /\ etype \notin {"KeyboardInterrupt", "SystemExit"}
     /\ exc_context.called /\ ~exc_context.raised)
    => (shown = 1 /\ requests = 1)

\* C3: a KeyboardInterrupt or SystemExit is shown once through showtraceback,
\* by the host or by custom_exc, which then returns at once: no request is
\* issued, nothing is displayed or printed, the suggestion flow is not entered.
C3_InterruptAndExitLeftAlone ==
    etype \in {"KeyboardInterrupt", "SystemExit"} =>
        /\ shown = 1
        /\ requests = 0
        /\ exc_pc = "idle"
        /\ exc_outcome \in {"returned", "host"}
        /\ ~gm.exists
        /\ printed = 0

\* the hook is registered and custom_exc has received a KeyboardInterrupt
C3_Witness ==
    /\ registered
    /\ etype = "KeyboardInterrupt"
    /\ exc_outcome = "returned"
    /\ shown = 1

\* C11: a keyboard interrupt at any point of the suggestion flow of custom_exc
\* (reading the code, gathering the snapshot, requesting, streaming) is not
\* re-raised and leaves the 'Interrupted' marker in the display.
C11_InterruptLeavesMarker ==
    exc_outcome = "interrupted" =>
        /\ exc_pc = "idle"
        /\ gm.exists
        /\ gm.content # <<>>
        /\ gm.content[Len(gm.content)] = "> **Interrupted**"

\* C12: an arguments-delta or a done event whose call id has no open buffer
\* has no side effect: set_next_input is not called, the display and the text
\* are not changed, function_call_buffers is left as it was, the loop goes on.
C12_UnknownCallIdIgnored ==
    [][\A c \in CallIds \cup {None} : \A t \in {ArgsDelta, ArgsDone} :
        (/\ ReadsChunk(t, c)
         /\ c \notin DOMAIN function_call_buffers)
        => /\ function_call_buffers' = function_call_buffers
           /\ next_input' = next_input
           /\ display_handle' = display_handle
           /\ full_response' = full_response
           /\ ai_pc' = "stream"
           /\ ai_outcome' = ai_outcome]_vars

\* in the first invocation the loop has just read done(fc_2), a call that was
\* never started, while the call fc_1 is open with arguments in its buffer
C12_Witness ==
    /\ invocations = 1
    /\ ai_pc = "stream"
    /\ chunk.type = ArgsDone
    /\ chunk.item_id = "fc_2"
    /\ "fc_2" \notin DOMAIN arrived
    /\ DOMAIN function_call_buffers = {"fc_1"}
    /\ function_call_buffers["fc_1"].arguments # <<>>

\* the same for a delta of the call fc_2 that was never started
C12_DeltaWitness ==
    /\ invocations = 1
    /\ ai_pc = "stream"
    /\ chunk.type = ArgsDelta
    /\ chunk.item_id = "fc_2"
    /\ "fc_2" \notin DOMAIN arrived
    /\ DOMAIN function_call_buffers = {"fc_1"}

\* C13: after the done event of an open call c the buffer of c has been
\* discarded, whether parsing its arguments succeeded or failed: c is not in
\* function_call_buffers.
C13_BufferDiscardedAfterDone ==
    [][\A c \in CallIds :
        (/\ ReadsChunk(ArgsDone, c)
         /\ c \in DOMAIN function_call_buffers)
        => c \notin DOMAIN function_call_buffers']_vars

\* C14: no buffer outlives the invocation of ai that created it:
\* function_call_buffers is empty whenever no invocation is running, and while
\* a stream is read every buffer is one of a call started in this invocation.
C14_NoBufferOutlivesInvocation ==
    /\ ai_pc = "idle" => function_call_buffers = EmptyDict
    /\ ai_pc = "stream" => DOMAIN function_call_buffers \subseteq DOMAIN arrived

\* C15: a tool call started with a name other than CreateCell is accepted (a
\* buffer is opened, its deltas are accumulated) and its done event has no side
\* effect: set_next_input is not called, the display is not cleared, and the
\* buffer is removed.
C15_OtherNameNoSideEffect ==
    [][/\ (/\ ReadsChunk(ItemAdded, None)
            /\ chunk'.item.type = "function_call"
            /\ chunk'.item.name = "Other"
            /\ Truthy(chunk'.item.id))
           => /\ chunk'.item.id \in DOMAIN function_call_buffers'
              /\ function_call_buffers'[chunk'.item.id].name = "Other"
              /\ function_call_buffers'[chunk'.item.id].arguments = <<>>
       /\ \A c \in CallIds :
            (c \in DOMAIN function_call_buffers
             /\ function_call_buffers[c].name = "Other")
            => /\ ReadsChunk(ArgsDelta, c) =>
                     /\ c \in DOMAIN function_call_buffers'
                     /\ function_call_buffers'[c].arguments =
                            function_call_buffers[c].arguments \o chunk'.delta
               /\ ReadsChunk(ArgsDone, c) =>
                     /\ next_input' = next_input
                     /\ display_handle' = display_handle
                     /\ c \notin DOMAIN function_call_buffers']_vars

(***************************************************************************)
(* Claims about the order and the extent of the history.                   *)
(***************************************************************************)
\* the entry of Python index i qualifies: its input is neither empty nor an
\* %%ai command, and it has an output or is no magic line
Qualifies(ins, outs, i) ==
    LET output == IF i \in DOMAIN outs THEN outs[i] ELSE EmptyStr IN
    /\ ~SkipInput(ins[i + 1])
    /\ (output.truth # "falsy" \/ ~IsMagicLine(ins[i + 1]))

\* the qualifying entries of the history from index i down to stop (excluded),
\* most recent first
RECURSIVE QualifyingEntries(_, _, _, _)
QualifyingEntries(ins, outs, i, stop) ==
    IF i <= stop THEN <<>>
    ELSE LET output == IF i \in DOMAIN outs THEN outs[i] ELSE EmptyStr
             rest == QualifyingEntries(ins, outs, i - 1, stop)
         IN IF Qualifies(ins, outs, i)
            THEN <<[In |-> ins[i + 1], Out |-> output]>> \o rest
            ELSE rest

\* C16: get_in_out_history(N) returns the last N qualifying entries: when the
\* history holds at least N of them, exactly the N most recent ones are
\* returned, whatever empty or %%ai entries lie between them.
C16_LastNQualifyingEntries ==
    (history.called /\ ~history.raised) =>
        LET src == InSource(user_ns, In)
            q == QualifyingEntries(src, OutSource(user_ns, Out), Len(src) - 1, -1)
        IN Len(q) >= n_entries => history.value = SubSeq(q, 1, n_entries)

\* the inputs of the In lines of the history section, in the order of the text
RECURSIVE PromptInputs(_)
PromptInputs(lines) ==
    IF lines = <<>> THEN <<>>
    ELSE (IF Head(lines).label = "In" THEN <<Head(lines).text>> ELSE <<>>)
            \o PromptInputs(Tail(lines))

\* the inputs of the entries the prompt includes (the qualifying ones among the
\* last DefaultN entries of the session), the one executed last first
IncludedInputs ==
    LET src == InSource(user_ns, In)
        q == QualifyingEntries(src, OutSource(user_ns, Out), Len(src) - 1,
                               HistoryStop(Len(src), DefaultN))
    IN [k \in 1..Len(q) |-> q[k].In]

\* C17: in the text of format_context_for_prompt the history entries appear
\* most-recent-first: of two entries included, the one executed later is
\* listed before the one executed earlier.
C17_PromptMostRecentFirst ==
    (prompt.called /\ ~prompt.raised) =>
        PromptInputs(prompt.history) = IncludedInputs

\* C17 as amended: the history entries appear oldest-first: of two entries
\* included, the one executed earlier is listed before the one executed later,
\* and the lines of the k-th entry listed are labelled In[k-1] and Out[k-1].
C17_PromptOldestFirst ==
    (prompt.called /\ ~prompt.raised) =>
        /\ PromptInputs(prompt.history) =
              [k \in 1..Len(IncludedInputs) |->
                  IncludedInputs[Len(IncludedInputs) + 1 - k]]
        /\ \A p \in 1..Len(prompt.history) :
              /\ prompt.history[p].label = "In" =>
                    prompt.history[p].i = Len(PromptInputs(SubSeq(prompt.history, 1, p))) - 1
              /\ prompt.history[p].label = "Out" =>
                    /\ p > 1
                    /\ prompt.history[p - 1].label = "In"
                    /\ prompt.history[p - 1].i = prompt.history[p].i

\* a prompt of a session whose cells were a line magic with an output, then
\* plain code, then a skipped %%ai cell: the magic line is listed first
C17_Witness ==
    /\ prompt.called /\ ~prompt.raised
    /\ Len(In) = 4
    /\ In[2] = <<"%", "x">> /\ In[3] = <<"x">>
    /\ In[4] = <<" ", "%", "%", "a", "i">>
    /\ Len(prompt.history) = 3
    /\ prompt.history[1].text = <<"%", "x">>
    /\ prompt.history[2].label = "Out"
    /\ prompt.history[3].text = <<"x">>

====
